---- MODULE Spec2Model ----
(***************************************************************************)
(* travel-recommender: the recommendation endpoint (POST /api/recommend,   *)
(* src/app/api/recommend/route.ts) and the preference form that calls it   *)
(* and writes the result to the "recommendations" collection (Page).       *)
(*                                                                         *)
(* JavaScript values are tagged records [t, s]: t is the typeof-like tag   *)
(* and s the text of the value.  HTTP bodies and JSON texts are held by    *)
(* the value they denote, with a tag for texts that do not parse.          *)
(***************************************************************************)
EXTENDS Integers, Sequences, FiniteSets, TLC

\* ------------------------------------------------------------- bounds ----
\* Requests the endpoint receives in one behaviour.
MaxReq == 2
\* Open form instances (browser tabs).
NumClients == 2

Clients == 1 .. NumClients

\* ---------------------------------------------------- JavaScript values --
Undef == [t |-> "undefined", s |-> ""]
JNull == [t |-> "null", s |-> ""]
Str(x) == [t |-> "string", s |-> x]
Num(x) == [t |-> "number", s |-> x]

\* ToBoolean, as used by `!x` and `a || b`.
Truthy(v) ==
  CASE v.t = "undefined" -> FALSE
    [] v.t = "null" -> FALSE
    [] v.t = "string" -> v.s # ""
    [] v.t = "number" -> v.s \notin {"0", "NaN"}
    [] OTHER -> TRUE

\* The left operand of `??` is replaced exactly when it is null or undefined.
Nullish(v) == v.t \in {"undefined", "null"}

\* -------------------------------------------------------- HTTP messages --
\* A JSON response of the endpoint: the status and the keys of the body
\* (Undef marks a key the serialised body does not carry).
JsonResponse(status, error, city, country, recommendation) ==
  [status |-> status, error |-> error, city |-> city, country |-> country,
   recommendation |-> recommendation]

ErrorResponse(msg, status) == JsonResponse(status, Str(msg), Undef, Undef, Undef)

\* No response sent yet / the exception left the handler.
NoResponse == JsonResponse(0, Undef, Undef, Undef, Undef)

\* A request body as req.json() meets it: k = "unparseable" when the text is
\* not JSON, "null" for the JSON text null, "object" otherwise (a key that
\* is absent reads as Undef).
Body(k, username, age, style, activity) ==
  [k |-> k, username |-> username, age |-> age, style |-> style,
   activity |-> activity]

\* Bodies a caller other than the form can send.
DirectBodies ==
  { Body("unparseable", Undef, Undef, Undef, Undef),
    Body("null", Undef, Undef, Undef, Undef),
    Body("object", Undef, Undef, Undef, Undef),
    Body("object", Str("Ana"), Str("29"), Str("Relaxed"), Str("Hiking")),
    Body("object", Str("Ana"), Num("29"), Str("Relaxed"), Str("Hiking")),
    Body("object", Undef, Str("29"), Str("Relaxed"), Str("Hiking")),
    Body("object", Str("Ana"), Str(""), Str("Relaxed"), Str("Hiking")),
    Body("object", Str("Ana"), Str("29"), JNull, Str("Hiking")),
    Body("object", Str("Ana"), Str("29"), Str("Relaxed"), Num("0")) }

\* ------------------------------------------------- the external service --
\* What the environment variable can hold: unset, empty, or a key.
EnvKeys == {Undef, Str(""), Str("k")}

\* Status and body of a non-2xx answer of the service.
UpstreamErrorStatuses == {429, 503}
UpstreamErrorTexts == {"quota exceeded", "API key not valid"}

\* The generated text payload (first candidate, first part), held by what
\* JSON.parse makes of it: k = "invalid" (not JSON), "null" (the text null)
\* or "object" with the three properties.
Payload(k, city, country, recommendation) ==
  [k |-> k, city |-> city, country |-> country, recommendation |-> recommendation]

NoPayload == Payload("none", Undef, Undef, Undef)

Payloads ==
  { Payload("invalid", Undef, Undef, Undef),
    Payload("null", Undef, Undef, Undef),
    Payload("object", Undef, Undef, Undef),
    Payload("object", Undef, Str("portugal"), Str("Walk the hills.")),
    Payload("object", Str(""), Str("portugal"), Str("Walk the hills.")),
    Payload("object", Str("lisbon"), Undef, Str("Walk the hills.")),
    Payload("object", Str("lisbon"), Str(""), Str("Walk the hills.")),
    Payload("object", Str("lisbon"), Undef, Undef),
    Payload("object", Str("lisbon"), Str("portugal"), Undef),
    Payload("object", Str("lisbon"), Str("portugal"), Str("Walk the hills.")),
    Payload("object", Num("1"), Str("portugal"), Str("Walk the hills.")) }

\* What res.json() yields for a 2xx answer: a rejected promise, null, a
\* structure without the text (or with an empty one), or the text payload.
UpstreamData ==
  { [k |-> "unparseable", text |-> NoPayload], [k |-> "null", text |-> NoPayload],
    [k |-> "noText", text |-> NoPayload] }
  \cup { [k |-> "text", text |-> p] : p \in Payloads }

\* ------------------------------------------------------ the form (Page) --
FormData(username, age, style, activity) ==
  [username |-> username, age |-> age, style |-> style, activity |-> activity]

defaultValues == FormData("", "", "", "")

\* What a user types into the four inputs.
TypedInputs ==
  { FormData("Ana", "29", "Relaxed", "Hiking"),
    FormData("Al", "", "ok", "Ski") }

VARIABLES
  geminiApiKey,   \* process.env.GEMINI_API_KEY
  reqs,           \* requests the endpoint is handling or has answered, by id <<o, n>>
  started,        \* started[o]: requests sent so far by form o (0: other callers)
  form,           \* form[c]: the values in the inputs of client c
  isSubmitting,   \* isSubmitting[c]: formState.isSubmitting of client c
  subs,           \* running onSubmit invocations, by the id of their request
  store,          \* the "recommendations" collection, in creation order
  hist            \* finished onSubmit invocations, by id: how they ended

vars == <<geminiApiKey, reqs, started, form, isSubmitting, subs,
          store, hist>>

serverVars == <<geminiApiKey, reqs, started>>
clientVars == <<form, isSubmitting, subs, store, hist>>

\* The forms and, as 0, the callers that are not forms.
Callers == 0 .. NumClients

\* Requests sent so far by the callers up to o.
RECURSIVE SentUpTo(_, _)
SentUpTo(count, o) == IF o < 0 THEN 0 ELSE count[o] + SentUpTo(count, o - 1)

Total(count) == SentUpTo(count, NumClients)

\* The id of the next request of caller o.
NextId(o) == <<o, started[o] + 1>>

\* =========================================================== endpoint ====
\* One invocation of POST: where it stands, what it read, what it sent.
NewRequest(owner, body) ==
  [owner |-> owner, body |-> body, pc |-> "start", calls |-> 0,
   upstream |-> "none", upStatus |-> 0, errorDetail |-> "",
   rawJsonText |-> NoPayload, threw |-> FALSE,
   resp |-> NoResponse, nresp |-> 0]

\* return NextResponse.json(...): the invocation ends with this response.
Return(q, resp) == [q EXCEPT !.pc = "done", !.resp = resp, !.nresp = @ + 1]

\* The gate written as a comparison with undefined: an empty value passes.
KeyMissing_OnlyUndefined(key) == key.t = "undefined"

\* if (!geminiApiKey)
KeyMissing(key) == ~Truthy(key)

\* The gate with the last operand forgotten.
MissingFields_WithoutActivity(body) ==
  \/ ~Truthy(body.username)
  \/ ~Truthy(body.age)
  \/ ~Truthy(body.style)

\* if (!username || !age || !style || !activity)
MissingFields(body) ==
  \/ ~Truthy(body.username)
  \/ ~Truthy(body.age)
  \/ ~Truthy(body.style)
  \/ ~Truthy(body.activity)

\* The catch rethrows after logging: the invocation ends without a response.
TopLevelCatch_Rethrow(q) == [q EXCEPT !.pc = "done", !.threw = TRUE]

\* The top-level catch: any exception becomes the generic 500.
TopLevelCatch(q) ==
  Return([q EXCEPT !.threw = TRUE], ErrorResponse("Server processing error", 500))

\* The upstream text handed on to the caller.
UpstreamFailure_Echo(status, errorDetail) == ErrorResponse(errorDetail, 500)

\* if (!res.ok) { errorDetail = await res.text(); console.error(...); return ... }
UpstreamFailure(status, errorDetail) == ErrorResponse("Gemini API request failed", 500)

\* The inner try/catch around JSON.parse and the three property reads:
\* JSON.parse throws on a text that is not JSON, and reading a property of
\* null throws a TypeError inside the same try block.
ParseStructured(text) ==
  IF text.k \in {"invalid", "null"}
    THEN [caught |-> TRUE, city |-> Str(""), country |-> Str(""),
          recommendation |-> Str("")]
    ELSE [caught |-> FALSE, city |-> text.city, country |-> text.country,
          recommendation |-> text.recommendation]

\* The three checks in their order, then the success response.
ValidateResult(city, country, recommendation) ==
  IF ~Truthy(city) THEN ErrorResponse("AI response missing 'city' field", 500)
  ELSE IF ~Truthy(country) THEN ErrorResponse("AI response missing 'country' field", 500)
  ELSE IF ~Truthy(recommendation)
    THEN ErrorResponse("AI response missing 'recommendation' field", 500)
  ELSE JsonResponse(200, Undef, city, country, recommendation)

\* From the text payload to the response.
StructuredResponse(text) ==
  LET p == ParseStructured(text) IN
    IF p.caught THEN ErrorResponse("Invalid JSON format from AI", 500)
    ELSE ValidateResult(p.city, p.country, p.recommendation)

\* POST up to `await req.json()`: the configuration gate.
POST_Start(r) ==
  /\ r \in DOMAIN reqs
  /\ reqs[r].pc = "start"
  /\ reqs' = [reqs EXCEPT ![r] =
       IF KeyMissing(geminiApiKey)
         THEN Return(@, ErrorResponse("GEMINI_API_KEY environment variable not set", 500))
         ELSE [@ EXCEPT !.pc = "readBody"]]
  /\ UNCHANGED <<geminiApiKey, started, clientVars>>

\* req.json() settles; destructuring, the validation gate and the call of
\* fetch follow without another await.
POST_ReadBody(r) ==
  /\ r \in DOMAIN reqs
  /\ reqs[r].pc = "readBody"
  /\ reqs' = [reqs EXCEPT ![r] =
       IF @.body.k \in {"unparseable", "null"} THEN TopLevelCatch(@)
       ELSE IF MissingFields(@.body) THEN Return(@, ErrorResponse("missing fields", 400))
       ELSE [@ EXCEPT !.pc = "fetching", !.calls = @ + 1]]
  /\ UNCHANGED <<geminiApiKey, started, clientVars>>

\* fetch(apiUrl) rejects (network failure).
POST_FetchRejects(r) ==
  /\ r \in DOMAIN reqs
  /\ reqs[r].pc = "fetching"
  /\ reqs' = [reqs EXCEPT ![r] = TopLevelCatch(@)]
  /\ UNCHANGED <<geminiApiKey, started, clientVars>>

\* fetch(apiUrl) resolves with a 2xx or a non-2xx answer.
POST_FetchResolves(r) ==
  /\ r \in DOMAIN reqs
  /\ reqs[r].pc = "fetching"
  /\ \/ reqs' = [reqs EXCEPT ![r] = [@ EXCEPT !.pc = "readData", !.upstream = "ok",
                                                !.upStatus = 200]]
     \/ \E st \in UpstreamErrorStatuses :
          reqs' = [reqs EXCEPT ![r] = [@ EXCEPT !.pc = "readError",
                                                 !.upstream = "failed",
                                                 !.upStatus = st]]
  /\ UNCHANGED <<geminiApiKey, started, clientVars>>

\* The non-2xx branch: res.text() settles.
POST_ReadError(r) ==
  /\ r \in DOMAIN reqs
  /\ reqs[r].pc = "readError"
  /\ \/ reqs' = [reqs EXCEPT ![r] = TopLevelCatch(@)]
     \/ \E txt \in UpstreamErrorTexts :
          reqs' = [reqs EXCEPT ![r] =
            Return([@ EXCEPT !.errorDetail = txt], UpstreamFailure(@.upStatus, txt))]
  /\ UNCHANGED <<geminiApiKey, started, clientVars>>

\* The 2xx branch: res.json() settles; extraction, parsing and the checks
\* follow without another await.
POST_ReadData(r) ==
  /\ r \in DOMAIN reqs
  /\ reqs[r].pc = "readData"
  /\ \E data \in UpstreamData :
       reqs' = [reqs EXCEPT ![r] =
         IF data.k \in {"unparseable", "null"} THEN TopLevelCatch(@)
         ELSE IF data.k = "noText"
           THEN Return(@, ErrorResponse("Could not get structured recommendation from AI", 500))
         ELSE Return([@ EXCEPT !.rawJsonText = data.text], StructuredResponse(data.text))]
  /\ UNCHANGED <<geminiApiKey, started, clientVars>>

\* A caller other than the form posts a body.
DirectRequest ==
  /\ Total(started) < MaxReq
  /\ \E b \in DirectBodies :
       reqs' = reqs @@ (NextId(0) :> NewRequest(0, b))
  /\ started' = [started EXCEPT ![0] = @ + 1]
  /\ UNCHANGED <<geminiApiKey, clientVars>>

\* That caller receives the response.
DirectReceive(r) ==
  /\ r \in DOMAIN reqs
  /\ reqs[r].owner = 0
  /\ reqs[r].pc = "done"
  /\ reqs' = [x \in DOMAIN reqs \ {r} |-> reqs[x]]
  /\ UNCHANGED <<geminiApiKey, started, clientVars>>

\* =============================================================== form ====
\* FormSchema: the four minimum lengths.
FormSchema(data) ==
  /\ Len(data.username) >= 2
  /\ Len(data.age) >= 1
  /\ Len(data.style) >= 3
  /\ Len(data.activity) >= 3

\* body: JSON.stringify(data), as req.json() reads it back.
RequestBody(data) ==
  Body("object", Str(data.username), Str(data.age), Str(data.style),
       Str(data.activity))

\* res.ok
ResOk(res) == res.status \in 200 .. 299

\* Only the validation status is treated as a failure.
ResponseFailed_Only400(res) == res.status = 400

\* if (!res.ok || json.error)
ResponseFailed(res) == ~ResOk(res) \/ Truthy(res.error)

\* "Recommendation failed: " + (json.error ?? "unknown")
AlertMessage(json) ==
  "Recommendation failed: " \o (IF Nullish(json.error) THEN "unknown" ELSE json.error.s)

\* json.city ?? "Unknown"
OrUnknown(v) == IF Nullish(v) THEN Str("Unknown") ELSE v

\* city and country taken from each other's key.
NewRecord_Swapped(sub, data, json) ==
  [sub |-> sub,
   username |-> Str(data.username), age |-> Str(data.age),
   style |-> Str(data.style), activity |-> Str(data.activity),
   city |-> IF Nullish(json.country) THEN Str("Unknown") ELSE json.country,
   country |-> IF Nullish(json.city) THEN Str("Unknown") ELSE json.city,
   recommendation |-> IF Nullish(json.recommendation) THEN Str("Unknown")
                      ELSE json.recommendation,
   createdAt |-> 0]

\* The document handed to addDoc; createdAt is the serverTimestamp()
\* sentinel (0) until the store assigns the time.
NewRecord(sub, data, json) ==
  [sub |-> sub,
   username |-> Str(data.username), age |-> Str(data.age),
   style |-> Str(data.style), activity |-> Str(data.activity),
   city |-> OrUnknown(json.city), country |-> OrUnknown(json.country),
   recommendation |-> OrUnknown(json.recommendation),
   createdAt |-> 0]

NoRecord == NewRecord(<<0, 0>>, defaultValues, NoResponse)

\* The button without the disabled attribute.
SubmitDisabled_Never(submitting) == FALSE

\* disabled={isSubmitting}
SubmitDisabled(submitting) == submitting

\* capitaliseFirstLetter throws when sentence[0] is undefined: the empty
\* string and every value that is not a string.
capitaliseFirstLetterThrows(sentence) == ~(sentence.t = "string" /\ sentence.s # "")

\* alert() is modal: the tab takes no input while it shows.
AlertShowing(c) == \E i \in DOMAIN subs : subs[i].client = c /\ subs[i].pc = "alert"

\* The invocation i of onSubmit ends; handleSubmit clears isSubmitting.
Finish(i, wrote) ==
  /\ subs' = [x \in DOMAIN subs \ {i} |-> subs[x]]
  /\ isSubmitting' = [isSubmitting EXCEPT ![subs[i].client] = FALSE]
  /\ hist' = hist @@ (i :> [endpointOk |-> subs[i].json.status \in 200 .. 299
                                            /\ subs[i].json.error = Undef,
                             wrote |-> wrote])

\* The user edits the inputs.
Type(c) ==
  /\ ~AlertShowing(c)
  /\ \E d \in TypedInputs :
       /\ d # form[c]
       /\ form' = [form EXCEPT ![c] = d]
  /\ UNCHANGED <<serverVars, isSubmitting, subs, store, hist>>

\* Submit: the resolver checks the values against FormSchema (values it
\* rejects end the submit without a call of onSubmit); handleSubmit sets
\* isSubmitting and calls onSubmit, which posts the values to /api/recommend.
onSubmit_Start(c) ==
  /\ ~AlertShowing(c)
  /\ ~SubmitDisabled(isSubmitting[c])
  /\ FormSchema(form[c])
  /\ Total(started) < MaxReq
  /\ isSubmitting' = [isSubmitting EXCEPT ![c] = TRUE]
  /\ subs' = subs @@ (NextId(c) :> [client |-> c, data |-> form[c], pc |-> "awaitFetch",
                                  json |-> NoResponse, msg |-> "", doc |-> NoRecord])
  /\ reqs' = reqs @@ (NextId(c) :> NewRequest(c, RequestBody(form[c])))
  /\ started' = [started EXCEPT ![c] = @ + 1]
  /\ UNCHANGED <<geminiApiKey, form, store, hist>>

\* fetch("/api/recommend") rejects: the request never reached the endpoint.
onSubmit_FetchRejects(i) ==
  /\ i \in DOMAIN subs
  /\ subs[i].pc = "awaitFetch"
  /\ i \in DOMAIN reqs
  /\ reqs[i].pc = "start"
  /\ reqs' = [x \in DOMAIN reqs \ {i} |-> reqs[x]]
  /\ Finish(i, "none")
  /\ UNCHANGED <<geminiApiKey, started, form, store>>

\* The response arrives and res.json() resolves: alert and stop, or build
\* the record and call addDoc.
onSubmit_Response(i) ==
  /\ i \in DOMAIN subs
  /\ subs[i].pc = "awaitFetch"
  /\ i \in DOMAIN reqs
  /\ reqs[i].pc = "done"
  /\ LET res == reqs[i].resp IN
       subs' = [subs EXCEPT ![i] =
         IF ResponseFailed(res)
           THEN [@ EXCEPT !.pc = "alert", !.json = res, !.msg = AlertMessage(res)]
           ELSE [@ EXCEPT !.pc = "awaitAddDoc", !.json = res,
                          !.doc = NewRecord(i, subs[i].data, res)]]
  /\ reqs' = [x \in DOMAIN reqs \ {i} |-> reqs[x]]
  /\ UNCHANGED <<geminiApiKey, started, form, isSubmitting, store, hist>>

\* The user dismisses the alert; onSubmit returns.
onSubmit_AlertReturn(i) ==
  /\ i \in DOMAIN subs
  /\ subs[i].pc = "alert"
  /\ Finish(i, "none")
  /\ UNCHANGED <<serverVars, form, store>>

\* addDoc resolves: the store holds the document with its creation time;
\* reset() puts the default values back.
onSubmit_AddDocResolves(i) ==
  /\ i \in DOMAIN subs
  /\ subs[i].pc = "awaitAddDoc"
  /\ store' = Append(store, [subs[i].doc EXCEPT !.createdAt = Len(store) + 1])
  /\ form' = [form EXCEPT ![subs[i].client] = defaultValues]
  /\ Finish(i, "ok")
  /\ UNCHANGED serverVars

\* addDoc rejects: the rejection leaves onSubmit, reset() is not reached.
onSubmit_AddDocRejects(i) ==
  /\ i \in DOMAIN subs
  /\ subs[i].pc = "awaitAddDoc"
  /\ Finish(i, "failed")
  /\ UNCHANGED <<serverVars, form, store>>

Init ==
  /\ geminiApiKey \in EnvKeys
  /\ reqs = <<>>
  /\ started = [o \in Callers |-> 0]
  /\ form = [c \in Clients |-> defaultValues]
  /\ isSubmitting = [c \in Clients |-> FALSE]
  /\ subs = <<>>
  /\ store = <<>>
  /\ hist = <<>>

\* The endpoint and its own steps.
Handle ==
  \/ \E r \in DOMAIN reqs : POST_Start(r)
  \/ \E r \in DOMAIN reqs : POST_ReadBody(r)
  \/ \E r \in DOMAIN reqs : POST_FetchRejects(r)
  \/ \E r \in DOMAIN reqs : POST_FetchResolves(r)
  \/ \E r \in DOMAIN reqs : POST_ReadError(r)
  \/ \E r \in DOMAIN reqs : POST_ReadData(r)

\* The application: forms submitting to the endpoint.
Next ==
  \/ Handle
  \/ \E c \in Clients : Type(c)
  \/ \E c \in Clients : onSubmit_Start(c)
  \/ \E i \in DOMAIN subs : onSubmit_FetchRejects(i)
  \/ \E i \in DOMAIN subs : onSubmit_Response(i)
  \/ \E i \in DOMAIN subs : onSubmit_AlertReturn(i)
  \/ \E i \in DOMAIN subs : onSubmit_AddDocResolves(i)
  \/ \E i \in DOMAIN subs : onSubmit_AddDocRejects(i)

Spec == Init /\ [][Next]_vars

\* The endpoint alone, called with arbitrary bodies.
EndpointNext ==
  \/ Handle
  \/ DirectRequest
  \/ \E r \in DOMAIN reqs : DirectReceive(r)

EndpointSpec == Init /\ [][EndpointNext]_vars

\* ============================================================ properties ==
Done(r) == r \in DOMAIN reqs /\ reqs[r].pc = "done"

InputFields == {"username", "age", "style", "activity"}
ResultFields == {"city", "country", "recommendation"}

\* At least one of the four fields is missing (falsy) in the body.
FieldMissing(body) == \E f \in InputFields : ~Truthy(body[f])

\* The credential is not configured.
KeyUnset == ~Truthy(geminiApiKey)

\* C1 as stated: the endpoint responds 400 if and only if at least one of
\* username, age, style, activity is missing (falsy) in the request body, and
\* a 400 is answered without a call to the external AI service.
C1_Original ==
  \A r \in DOMAIN reqs : Done(r) =>
    /\ (reqs[r].resp.status = 400) <=> FieldMissing(reqs[r].body)
    /\ reqs[r].resp.status = 400 => reqs[r].calls = 0

\* C1 amended: a 400 is answered only when a field is missing and without a
\* call to the AI service; when the credential is configured and the body
\* parses to a JSON value other than null, the response is 400 if and only
\* if a field is missing.
C1_Amended ==
  \A r \in DOMAIN reqs : Done(r) =>
    /\ reqs[r].resp.status = 400 => FieldMissing(reqs[r].body) /\ reqs[r].calls = 0
    /\ (~KeyUnset /\ reqs[r].body.k = "object")
         => ((reqs[r].resp.status = 400) <=> FieldMissing(reqs[r].body))

C1_Witness ==
  /\ ~KeyUnset
  /\ \E r \in DOMAIN reqs :
       /\ Done(r) /\ reqs[r].body.k = "object"
       /\ Truthy(reqs[r].body.username) /\ ~Truthy(reqs[r].body.activity)
       /\ reqs[r].resp = ErrorResponse("missing fields", 400)

\* C2: with GEMINI_API_KEY unset every request is answered 500 with the
\* configuration error, whatever its body (valid, fields missing, not
\* parseable), and no call to the external AI service is made.
C2_ConfigurationGate ==
  KeyUnset =>
    \A r \in DOMAIN reqs :
      /\ reqs[r].calls = 0
      /\ reqs[r].pc \in {"start", "done"}
      /\ Done(r) =>
           reqs[r].resp = ErrorResponse("GEMINI_API_KEY environment variable not set", 500)

C2_Witness ==
  /\ KeyUnset
  /\ \E r \in DOMAIN reqs : Done(r) /\ reqs[r].body.k = "unparseable"
  /\ \E r \in DOMAIN reqs : Done(r) /\ reqs[r].body.k = "object"
                              /\ ~FieldMissing(reqs[r].body)

\* C3 as stated: every 200 response carries exactly the keys city, country,
\* recommendation, each a non-empty string; no partial result is returned.
C3_SuccessShape ==
  \A r \in DOMAIN reqs : (Done(r) /\ reqs[r].resp.status = 200) =>
    /\ reqs[r].resp.error = Undef
    /\ \A f \in ResultFields :
         reqs[r].resp[f].t = "string" /\ reqs[r].resp[f].s # ""

\* The first of city, country, recommendation that is missing or falsy in
\* the JSON value the text denotes ("" when none is).
FirstMissing(text) ==
  IF text.k = "null" \/ ~Truthy(text.city) THEN "city"
  ELSE IF ~Truthy(text.country) THEN "country"
  ELSE IF ~Truthy(text.recommendation) THEN "recommendation"
  ELSE ""

\* C4 as stated: when the text payload is valid JSON and one of city,
\* country, recommendation is missing or falsy in it, the response is the
\* 500 missing-field error that names the first such field in the order
\* city, country, recommendation.
C4_FirstMissingField ==
  \A r \in DOMAIN reqs :
    (/\ Done(r)
     /\ reqs[r].rawJsonText.k \in {"null", "object"}
     /\ FirstMissing(reqs[r].rawJsonText) # "")
    => reqs[r].resp =
         ErrorResponse("AI response missing '" \o FirstMissing(reqs[r].rawJsonText)
                         \o "' field", 500)

\* The literals the handler can put in an error response.
ErrorLiterals ==
  { "GEMINI_API_KEY environment variable not set", "missing fields",
    "Gemini API request failed", "Could not get structured recommendation from AI",
    "Invalid JSON format from AI", "AI response missing 'city' field",
    "AI response missing 'country' field",
    "AI response missing 'recommendation' field", "Server processing error" }

UpstreamFailed(r) == Done(r) /\ reqs[r].upstream = "failed"

\* C5: after a non-2xx answer of the AI service the response is a 500 whose
\* error is one of the handler's literals (the request-failed message once
\* the upstream body was read), and two such responses are equal whatever
\* the upstream statuses and bodies were.
C5_NoUpstreamEcho ==
  /\ \A r \in DOMAIN reqs : UpstreamFailed(r) =>
       /\ reqs[r].resp.status = 500
       /\ reqs[r].resp.error.t = "string"
       /\ reqs[r].resp.error.s \in ErrorLiterals
       /\ ~reqs[r].threw => reqs[r].resp = ErrorResponse("Gemini API request failed", 500)
  /\ \A r1, r2 \in DOMAIN reqs :
       (UpstreamFailed(r1) /\ UpstreamFailed(r2) /\ reqs[r1].threw = reqs[r2].threw)
         => reqs[r1].resp = reqs[r2].resp

C5_Witness ==
  \E r1, r2 \in DOMAIN reqs :
    /\ UpstreamFailed(r1) /\ UpstreamFailed(r2)
    /\ reqs[r1].errorDetail # "" /\ reqs[r2].errorDetail # ""
    /\ reqs[r1].errorDetail # reqs[r2].errorDetail
    /\ reqs[r1].upStatus # reqs[r2].upStatus

\* C6: an invocation of POST that has ended has sent exactly one JSON
\* response, with status 200, 400 or 500; one that met an exception has sent
\* the generic 500; one that has not ended has sent nothing.
C6_OneResponse ==
  \A r \in DOMAIN reqs :
    /\ reqs[r].pc = "done" =>
         /\ reqs[r].nresp = 1
         /\ reqs[r].resp.status \in {200, 400, 500}
         /\ reqs[r].threw => reqs[r].resp = ErrorResponse("Server processing error", 500)
    /\ reqs[r].pc # "done" => reqs[r].nresp = 0 /\ ~reqs[r].threw

C6_Witness ==
  /\ \E r \in DOMAIN reqs : Done(r) /\ reqs[r].threw /\ reqs[r].body.k = "unparseable"
  /\ \E r \in DOMAIN reqs : Done(r) /\ reqs[r].threw /\ reqs[r].upstream = "ok"

\* The response is not successful: a non-2xx status or an error key.
NotSuccessful(res) == res.status \notin 200 .. 299 \/ res.error # Undef

\* Invocation i holds, or is about to read, an unsuccessful response.
FailedSubmission(i) ==
  \/ subs[i].pc = "alert"
  \/ /\ subs[i].pc = "awaitFetch"
     /\ i \in DOMAIN reqs /\ reqs[i].pc = "done" /\ NotSuccessful(reqs[i].resp)

Moves(i) == i \notin DOMAIN subs' \/ subs'[i] # subs[i]

RecordsOf(i) == {k \in 1 .. Len(store) : store[k].sub = i}

C7_Alerted ==
  /\ \A i \in DOMAIN subs :
       (subs[i].json # NoResponse /\ NotSuccessful(subs[i].json)) =>
         /\ subs[i].pc = "alert"
         /\ subs[i].msg = "Recommendation failed: " \o subs[i].json.error.s
         /\ RecordsOf(i) = {}
  /\ \A i \in DOMAIN hist : ~hist[i].endpointOk =>
       hist[i].wrote = "none" /\ RecordsOf(i) = {}

C7_Stops ==
  \A i \in DOMAIN subs : (FailedSubmission(i) /\ Moves(i)) =>
    /\ store' = store
    /\ form' = form
    /\ i \in DOMAIN subs' => subs'[i].pc = "alert"

\* C7: a submission whose response is not successful shows the alert with
\* the error message and stops: it writes no record and does not reset the
\* form.
C7_FailureStops == []C7_Alerted /\ [][C7_Stops]_vars

C7_Witness ==
  /\ \E i \in DOMAIN hist : ~hist[i].endpointOk
  /\ \E j \in DOMAIN subs :
       /\ subs[j].pc = "alert" /\ subs[j].json.status = 500
       /\ form[subs[j].client] # defaultValues

C8_OnePerRoundTrip ==
  /\ \A k \in 1 .. Len(store) :
       /\ store[k].sub \in DOMAIN hist
       /\ hist[store[k].sub].endpointOk
       /\ hist[store[k].sub].wrote = "ok"
       /\ store[k].createdAt = k
  /\ \A i \in DOMAIN hist :
       (hist[i].endpointOk /\ hist[i].wrote = "ok") <=> Cardinality(RecordsOf(i)) = 1
  /\ \A i \in DOMAIN subs : RecordsOf(i) = {}

\* The record the round trip of invocation i is to leave in the store.
ExpectedRecord(i) ==
  [sub |-> i,
   username |-> Str(subs[i].data.username), age |-> Str(subs[i].data.age),
   style |-> Str(subs[i].data.style), activity |-> Str(subs[i].data.activity),
   city |-> subs[i].json.city, country |-> subs[i].json.country,
   recommendation |-> subs[i].json.recommendation,
   createdAt |-> Len(store) + 1]

C8_Write ==
  /\ Len(store') >= Len(store)
  /\ SubSeq(store', 1, Len(store)) = store
  /\ \A i \in DOMAIN subs :
       (i \in DOMAIN hist' /\ hist'[i].endpointOk /\ hist'[i].wrote = "ok") =>
         /\ store' = Append(store, ExpectedRecord(i))
         /\ form'[subs[i].client] = defaultValues

\* C8: the store holds exactly one record per submission whose endpoint
\* call and store write both succeeded, and no other record; the record
\* carries the submitted four fields, the endpoint's city, country and
\* recommendation and a creation time; the form is back at its defaults
\* after such a submission; no record is ever changed or removed.
C8_Records == []C8_OnePerRoundTrip /\ [][C8_Write]_vars

C8_Witness ==
  /\ Len(store) >= 2
  /\ \E c \in Clients : form[c] = defaultValues

SubsOf(c) == {i \in DOMAIN subs : subs[i].client = c}

\* C9: a form instance has at most one onSubmit running, so at most one
\* endpoint call or store write of it is in flight, and its submit control
\* is disabled for as long as one runs.
C9_NoOverlap ==
  \A c \in Clients :
    /\ Cardinality(SubsOf(c)) <= 1
    /\ SubsOf(c) # {} => isSubmitting[c]
    /\ Cardinality({r \in DOMAIN reqs : reqs[r].owner = c}) <= 1

\* Two form instances with a submission in flight each, one at the endpoint
\* and one at the store.
C9_Witness ==
  \E c1, c2 \in Clients :
    /\ c1 # c2
    /\ \E i \in SubsOf(c1) : subs[i].pc = "awaitFetch"
    /\ \E j \in SubsOf(c2) : subs[j].pc = "awaitAddDoc"

\* C10 as stated: every record written by the form has non-empty text in
\* city, country, style and activity, so capitaliseFirstLetter is never
\* applied to a value it fails on.
C10_NonEmptyText ==
  \A k \in 1 .. Len(store) :
    \A f \in {"city", "country", "style", "activity"} :
      /\ store[k][f].t = "string" /\ store[k][f].s # ""
      /\ ~capitaliseFirstLetterThrows(store[k][f])
====
